---- MODULE Spec2Model ----
(***************************************************************************)
(* A model of the palette generator of src/src/App.jsx: the colour         *)
(* conversions, the palette generator, the contrast selection and WCAG     *)
(* classification, and the PaletteGenerator component with its persisted   *)
(* state.                                                                  *)
(*                                                                         *)
(* Representation.  A JavaScript string is a sequence of one-character     *)
(* strings.  A JavaScript number is a record [nan, n]: Num(n) for the      *)
(* integer n and NaN for not-a-number.  Saturation and lightness are       *)
(* carried in hundredths and a Math.random() draw in twentieths, so that   *)
(* the arithmetic of hslToRgb is exact integer arithmetic (it differs from *)
(* IEEE doubles only where a channel falls within rounding error of a      *)
(* half).  A contrast ratio is a fraction num/den of two integers.         *)
(***************************************************************************)
EXTENDS Integers, Sequences, FiniteSets

VARIABLES
  mounted,   \* whether the component is mounted (a session is open)
  scheme,    \* useLocalStorage('scheme')
  baseHue,   \* useLocalStorage('baseHue')
  palette,   \* useLocalStorage('palette')
  locks,     \* useLocalStorage('locks')
  angle,     \* useLocalStorage('angle')
  fgIndex,   \* useLocalStorage('fg')
  bgIndex,   \* useLocalStorage('bg')
  storage,   \* localStorage: the persisted snapshot, or NoSnapshot
  gen,       \* history: the arguments and result of the last generatePalette call of regenerate
  lastOp,    \* history: the handler that ran last
  ops,       \* number of handlers run so far
  call,      \* pure-function harness: the function applied last
  arg,       \* pure-function harness: the input
  ret        \* pure-function harness: the result

uiVars == <<mounted, scheme, baseHue, palette, locks, angle, fgIndex, bgIndex,
            storage, gen, lastOp, ops>>
fnVars == <<call, arg, ret>>
vars == <<mounted, scheme, baseHue, palette, locks, angle, fgIndex, bgIndex,
          storage, gen, lastOp, ops, call, arg, ret>>

\* ------------------------------------------------------------------ bounds

\* Longest free-form text fed to hexToRgb.
MaxLen == 3
\* Hex digits sampled for well-formed colour strings: indices 0..MaxDigit.
MaxDigit == 3
\* Channel values sampled for RGB triples: indices 0..MaxChan.
MaxChan == 3
\* Math.random() outcomes sampled: indices 0..MaxDraw.
MaxDraw == 2
\* Largest denominator of a sampled contrast ratio num/den.
MaxDen == 10
\* Contrast-selection indices sampled: -MaxIndex .. PaletteSize + MaxIndex.
MaxIndex == 2
\* Handlers run in one behaviour of the component.
MaxOps == 3

\* ------------------------------------------------------- JavaScript values

Num(n) == [nan |-> FALSE, n |-> n]
NaN == [nan |-> TRUE, n |-> 0]

\* A thrown TypeError (reading a property of undefined).
TypeError == <<"TypeError">>

Digits16 == <<"0","1","2","3","4","5","6","7","8","9","a","b","c","d","e","f">>
UpperDigits16 == <<"A","B","C","D","E","F">>

isLowerHexDigit(ch) == \E i \in 1..16 : Digits16[i] = ch
isUpperHexDigit(ch) == \E i \in 1..6 : UpperDigits16[i] = ch
isHexDigit(ch) == isLowerHexDigit(ch) \/ isUpperHexDigit(ch)

digitValue(ch) ==
  IF isLowerHexDigit(ch)
    THEN (CHOOSE i \in 1..16 : Digits16[i] = ch) - 1
    ELSE (CHOOSE i \in 1..6 : UpperDigits16[i] = ch) + 9

\* JavaScript's %: the remainder takes the sign of the dividend.
jsRem(a, b) == IF a >= 0 THEN a % b ELSE 0 - ((0 - a) % b)

abs(a) == IF a >= 0 THEN a ELSE 0 - a

\* const clamp = (v, min, max) => Math.min(max, Math.max(min, v))
clamp(v, min, max) ==
  LET lower == IF v >= min THEN v ELSE min
  IN IF lower <= max THEN lower ELSE max

\* Number.prototype.toString(16) of a non-negative integer.
RECURSIVE natToString16(_)
natToString16(n) ==
  IF n < 16 THEN <<Digits16[n + 1]>>
  ELSE natToString16(n \div 16) \o <<Digits16[(n % 16) + 1]>>

toString16(x) ==
  IF x.nan THEN <<"N","a","N">>
  ELSE IF x.n < 0 THEN <<"-">> \o natToString16(0 - x.n)
  ELSE natToString16(x.n)

\* String.prototype.padStart(2, "0")
padStart2(s) ==
  IF Len(s) >= 2 THEN s
  ELSE IF Len(s) = 1 THEN <<"0">> \o s
  ELSE <<"0","0">>

\* Mutant of pad: the padStart is left out.
padUnpadded(n) == toString16(n)

\* const pad = (n) => n.toString(16).padStart(2, "0")
pad(n) == padStart2(toString16(n))

\* function rgbToHex([r,g,b]): a missing channel is undefined, and
\* undefined.toString throws.
rgbToHex(t) ==
  IF Len(t) < 3 THEN TypeError
  ELSE <<"#">> \o pad(t[1]) \o pad(t[2]) \o pad(t[3])

\* hex.replace('#',''): the first '#' of the string is removed, wherever it is.
RECURSIVE replaceHash(_)
replaceHash(s) ==
  IF s = <<>> THEN <<>>
  ELSE IF Head(s) = "#" THEN Tail(s)
  ELSE <<Head(s)>> \o replaceHash(Tail(s))

\* The characters the regular expression's . does not match.
isLineTerminator(ch) == ch \in {"\n", "\r"}

\* s.match(/.{1,2}/g): the greedy groups of one or two characters, none of
\* them a line terminator; <<>> stands for null (no match).
RECURSIVE matchPairs(_)
matchPairs(s) ==
  IF s = <<>> THEN <<>>
  ELSE IF isLineTerminator(s[1]) THEN matchPairs(Tail(s))
  ELSE IF Len(s) >= 2 /\ ~isLineTerminator(s[2])
    THEN <<SubSeq(s, 1, 2)>> \o matchPairs(SubSeq(s, 3, Len(s)))
  ELSE <<SubSeq(s, 1, 1)>> \o matchPairs(Tail(s))

isWhiteSpace(ch) == ch \in {" ", "\t", "\n", "\r"}

RECURSIVE trimStart(_)
trimStart(s) ==
  IF s # <<>> /\ isWhiteSpace(Head(s)) THEN trimStart(Tail(s)) ELSE s

\* The longest prefix of hex digits of s.
RECURSIVE hexPrefix(_)
hexPrefix(s) ==
  IF s # <<>> /\ isHexDigit(Head(s)) THEN <<Head(s)>> \o hexPrefix(Tail(s)) ELSE <<>>

RECURSIVE digitsValue(_)
digitsValue(s) ==
  IF s = <<>> THEN 0
  ELSE 16 * digitsValue(SubSeq(s, 1, Len(s) - 1)) + digitValue(s[Len(s)])

\* parseInt(x, 16): leading white space is skipped, a sign is read, a 0x or
\* 0X prefix is dropped, and the longest prefix of hex digits is the value;
\* NaN when that prefix is empty.
parseInt16(x) ==
  LET t == trimStart(x)
      negative == t # <<>> /\ Head(t) = "-"
      signed == t # <<>> /\ Head(t) \in {"-", "+"}
      u == IF signed THEN Tail(t) ELSE t
      prefixed == Len(u) >= 2 /\ u[1] = "0" /\ u[2] \in {"x", "X"}
      v == IF prefixed THEN SubSeq(u, 3, Len(u)) ELSE u
      d == hexPrefix(v)
  IN IF d = <<>> THEN NaN
     ELSE Num(IF negative THEN 0 - digitsValue(d) ELSE digitsValue(d))

\* function hexToRgb(hex)
hexToRgb(hex) ==
  LET m == matchPairs(replaceHash(hex))
  IN IF m = <<>> THEN <<Num(0), Num(0), Num(0)>>
     ELSE [i \in 1..Len(m) |-> parseInt16(m[i])]

\* ------------------------------------------------------ palette generator

PaletteSize == 5
Slots == 1..PaletteSize

Schemes == {"random", "complementary", "triadic", "analogous", "monochrome"}

\* The values a single Math.random() draw takes in the model, in twentieths.
RandomDraws == {(7 * k) % 20 : k \in 0..MaxDraw}

\* The draws of one generatePalette call, in call order: saturation,
\* lightness, then the five hues of the random scheme.  The model samples
\* MaxDraw + 1 such sequences.
DrawSeq(k) == [i \in 1..(2 + PaletteSize) |-> (7 * k + 3 * i * k) % 20]
DrawSeqs == {DrawSeq(k) : k \in 0..MaxDraw}

\* Math.floor(Math.random()*360) of a draw d (in twentieths)
randomHue(d) == (d * 360) \div 20

\* function hslToRgb(h, s, l), s and l in hundredths.  With c in 1/10000
\* and x, m in 1/600000, Math.round((v + m) * 255) is
\* floor((2 * (v + m) * 255 + 600000) / 1200000).
hslToRgb(h, s, l) ==
  LET hn == jsRem(jsRem(h, 360) + 360, 360)
      c == (100 - abs(2 * l - 100)) * s
      x == c * (60 - abs((hn % 120) - 60))
      m == l * 6000 - c * 30
      c6 == c * 60
      rgb == IF hn < 60 THEN <<c6, x, 0>>
             ELSE IF hn < 120 THEN <<x, c6, 0>>
             ELSE IF hn < 180 THEN <<0, c6, x>>
             ELSE IF hn < 240 THEN <<0, x, c6>>
             ELSE IF hn < 300 THEN <<x, 0, c6>>
             ELSE <<c6, 0, x>>
      round255(v) == (2 * (v + m) * 255 + 600000) \div 1200000
  IN <<Num(round255(rgb[1])), Num(round255(rgb[2])), Num(round255(rgb[3]))>>

\* Mutant of hues: the analogous hues are reduced with % alone, which keeps
\* the sign of a negative hue.
huesRemOnly(base, sch, rnd) ==
  IF sch = "complementary" THEN
    <<base, jsRem(base + 180, 360), jsRem(base + 30, 360),
      jsRem(base + 210, 360), jsRem(base + 350, 360)>>
  ELSE IF sch = "triadic" THEN
    <<base, jsRem(base + 120, 360), jsRem(base + 240, 360),
      jsRem(base + 60, 360), jsRem(base + 300, 360)>>
  ELSE IF sch = "analogous" THEN
    LET raw == <<base - 30, base - 10, base, base + 10, base + 30>>
    IN [i \in Slots |-> jsRem(raw[i], 360)]
  ELSE IF sch = "monochrome" THEN
    <<base, base, base, base, base>>
  ELSE
    [i \in Slots |-> randomHue(rnd[2 + i])]

\* The hues of generatePalette (the switch on scheme).
hues(base, sch, rnd) ==
  IF sch = "complementary" THEN
    <<base, jsRem(base + 180, 360), jsRem(base + 30, 360),
      jsRem(base + 210, 360), jsRem(base + 350, 360)>>
  ELSE IF sch = "triadic" THEN
    <<base, jsRem(base + 120, 360), jsRem(base + 240, 360),
      jsRem(base + 60, 360), jsRem(base + 300, 360)>>
  ELSE IF sch = "analogous" THEN
    LET raw == <<base - 30, base - 10, base, base + 10, base + 30>>
    IN [i \in Slots |-> jsRem(jsRem(raw[i], 360) + 360, 360)]
  ELSE IF sch = "monochrome" THEN
    <<base, base, base, base, base>>
  ELSE
    [i \in Slots |-> randomHue(rnd[2 + i])]

\* function generatePalette({ baseHue, scheme })
generatePalette(base, sch, rnd) ==
  LET s == 50 + 2 * rnd[1]
      l == 45 + rnd[2]
      hs == hues(base, sch, rnd)
      ladder == <<l - 15, l - 5, l, l + 8, l + 16>>
      ls == IF sch = "monochrome" THEN <<25, 40, 55, 70, 85>>
            ELSE [i \in Slots |-> clamp(ladder[i], 15, 90)]
      ss == IF sch = "monochrome" THEN <<15, 30, 45, 60, 75>>
            ELSE [i \in Slots |-> s]
  IN [i \in Slots |-> rgbToHex(hslToRgb(hs[i], clamp(ss[i], 0, 100), clamp(ls[i], 0, 100)))]

\* ------------------------------------------- contrast selection and WCAG

Undefined == <<"undefined">>

\* arr[i] of a JavaScript array: undefined outside 0..length-1.
at(arr, i) == IF i >= 0 /\ i < Len(arr) THEN arr[i + 1] ELSE Undefined

\* a ?? b
nullish(a, b) == IF a = Undefined THEN b ELSE a

\* const fg = palette[fgIndex-1] ?? palette[0]
selectFg(pal, fg) == nullish(at(pal, fg - 1), at(pal, 0))

\* Mutant of selectBg: the fallback is the first colour, as for fg.
selectBgFirst(pal, bg) == nullish(at(pal, bg - 1), at(pal, 0))

\* const bg = palette[bgIndex-1] ?? palette[palette.length-1]
selectBg(pal, bg) == nullish(at(pal, bg - 1), at(pal, Len(pal) - 1))

\* A contrast ratio num/den, or NaN.
Ratio(num, den) == [nan |-> FALSE, num |-> num, den |-> den]
NaNRatio == [nan |-> TRUE, num |-> 0, den |-> 1]

\* contrast >= a/b; every comparison with NaN is false.
ge(contrast, a, b) == ~contrast.nan /\ contrast.num * b >= a * contrast.den

\* Mutant of wcag: the AA threshold is 5 instead of 4.5.
wcagFive(contrast) ==
  IF ge(contrast, 7, 1) THEN "AAA"
  ELSE IF ge(contrast, 5, 1) THEN "AA"
  ELSE IF ge(contrast, 3, 1) THEN "AA Large"
  ELSE "Fail"

\* const wcag = contrast >= 7 ? 'AAA' : contrast >= 4.5 ? 'AA'
\*            : contrast >= 3 ? 'AA Large' : 'Fail'
wcag(contrast) ==
  IF ge(contrast, 7, 1) THEN "AAA"
  ELSE IF ge(contrast, 9, 2) THEN "AA"
  ELSE IF ge(contrast, 3, 1) THEN "AA Large"
  ELSE "Fail"

\* ------------------------------------------------ the component's state

Keys == {"scheme", "baseHue", "palette", "locks", "angle", "fg", "bg"}

\* The range of the base-hue and angle sliders (min and max attributes).
SliderMin == 0
SliderMax == 360

\* Initial values of the hooks.
InitialAngle == 45
InitialFg == 1
InitialBg == 5

NoLocks == [i \in Slots |-> FALSE]

\* No generatePalette call of regenerate in the last handler.
NoGen == [called |-> FALSE]

\* useLocalStorage's initial state: the stored value when the key is
\* present (the stored JSON text is never empty), else the initial value.
\* The values stored are strings, integers, booleans and arrays of them,
\* which JSON.stringify and JSON.parse carry over unchanged.
useLocalStorage(store, key, initial) ==
  IF key \in DOMAIN store THEN store[key] ELSE initial

\* What the seven persisting effects leave in localStorage.
snapshot(sch, hue, pal, lks, ang, fg, bg) ==
  [scheme |-> sch, baseHue |-> hue, palette |-> pal, locks |-> lks,
   angle |-> ang, fg |-> fg, bg |-> bg]

\* Mutant of mergeLocked: the locks are not consulted.
mergeIgnoringLocks(p, lks, fresh) ==
  [i \in 1..Len(p) |-> at(fresh, i - 1)]

\* p.map((c,i) => locks[i] ? c : fresh[i])
mergeLocked(p, lks, fresh) ==
  [i \in 1..Len(p) |-> IF at(lks, i - 1) = TRUE THEN p[i] ELSE at(fresh, i - 1)]

\* Mutant of updateColor: the new text is inserted before slot i instead of
\* replacing it.
updateColorInsert(p, i, hex) ==
  SubSeq(p, 1, i) \o <<hex>> \o SubSeq(p, i + 1, Len(p))

\* p.map((c,idx) => idx===i ? hex : c), i a 0-based index
updateColor(p, i, hex) ==
  [idx \in 1..Len(p) |-> IF idx - 1 = i THEN hex ELSE p[idx]]

\* ls.map((v,idx) => idx===i ? !v : v)
toggleLock(ls, i) ==
  [idx \in 1..Len(ls) |-> IF idx - 1 = i THEN ~ls[idx] ELSE ls[idx]]

\* e.target.value.startsWith('#') ? e.target.value : `#${e.target.value}`
withHash(text) ==
  IF text # <<>> /\ Head(text) = "#" THEN text ELSE <<"#">> \o text

\* The texts an edit of the hex field showing hex can leave in it: the last
\* character deleted, a character typed at the end, everything deleted, a
\* colour pasted over it.
EditedTexts(hex) ==
  {SubSeq(hex, 1, Len(hex) - 1), hex \o <<"f">>, hex \o <<"z">>, <<>>,
   <<"f","f","0","0","8","0">>}

\* The positions the base-hue slider is moved to.
SliderValues == {SliderMin, SliderMax - 1, SliderMax}

Idle ==
  /\ mounted = FALSE
  /\ scheme = "random"
  /\ baseHue = 0
  /\ palette = <<>>
  /\ locks = <<>>
  /\ angle = 0
  /\ fgIndex = 0
  /\ bgIndex = 0

\* Before the first visit: nothing is mounted and localStorage is empty.
Init ==
  /\ Idle
  /\ storage = <<>>
  /\ gen = NoGen
  /\ lastOp = "none"
  /\ ops = 0
  /\ call = "none"
  /\ arg = <<>>
  /\ ret = <<>>

\* The persisting effects of useLocalStorage, run after every render that
\* changed a value.
Persist ==
  storage' = snapshot(scheme', baseHue', palette', locks', angle', fgIndex', bgIndex')

Step(op) ==
  /\ ops < MaxOps
  /\ ops' = ops + 1
  /\ lastOp' = op
  /\ UNCHANGED fnVars

\* regenerate: a fresh palette from the base hue and scheme of the render,
\* merged into the current palette under the locks of the render.
Regenerated(p, hue, sch, lks, rnd) ==
  LET base == hue  \* Math.floor of an integer
      fresh == generatePalette(base, sch, rnd)
  IN [palette |-> mergeLocked(p, lks, fresh),
      gen |-> [called |-> TRUE, base |-> base, scheme |-> sch, fresh |-> fresh]]

\* The component mounts: the hooks read localStorage or take their initial
\* values, then the effects run: regenerate (the [scheme] effect runs on
\* mount) and the persisting effects.
Mount ==
  /\ ~mounted
  /\ Step("mount")
  /\ \E d \in RandomDraws, rnd0 \in DrawSeqs, rnd \in DrawSeqs :
       LET sch == useLocalStorage(storage, "scheme", "random")
           hue == useLocalStorage(storage, "baseHue", randomHue(d))
           pal == useLocalStorage(storage, "palette", generatePalette(hue, sch, rnd0))
           lks == useLocalStorage(storage, "locks", NoLocks)
           r == Regenerated(pal, hue, sch, lks, rnd)
       IN /\ scheme' = sch
          /\ baseHue' = hue
          /\ locks' = lks
          /\ angle' = useLocalStorage(storage, "angle", InitialAngle)
          /\ fgIndex' = useLocalStorage(storage, "fg", InitialFg)
          /\ bgIndex' = useLocalStorage(storage, "bg", InitialBg)
          /\ palette' = r.palette
          /\ gen' = r.gen
  /\ mounted' = TRUE
  /\ Persist

\* The page is closed: the component's state is gone, localStorage stays.
Unmount ==
  /\ mounted
  /\ Step("unmount")
  /\ mounted' = FALSE
  /\ scheme' = "random"
  /\ baseHue' = 0
  /\ palette' = <<>>
  /\ locks' = <<>>
  /\ angle' = 0
  /\ fgIndex' = 0
  /\ bgIndex' = 0
  /\ gen' = NoGen
  /\ UNCHANGED storage

\* The scheme select changes: setScheme, then the [scheme] effect runs
\* regenerate with the new scheme.
SetScheme ==
  /\ mounted
  /\ Step("setScheme")
  /\ \E s \in Schemes \ {scheme}, rnd \in DrawSeqs :
       LET r == Regenerated(palette, baseHue, s, locks, rnd)
       IN /\ scheme' = s
          /\ palette' = r.palette
          /\ gen' = r.gen
  /\ UNCHANGED <<mounted, baseHue, locks, angle, fgIndex, bgIndex>>
  /\ Persist

\* The generate button: shuffleUnlocked = regenerate.
Regenerate ==
  /\ mounted
  /\ Step("regenerate")
  /\ \E rnd \in DrawSeqs :
       LET r == Regenerated(palette, baseHue, scheme, locks, rnd)
       IN /\ palette' = r.palette
          /\ gen' = r.gen
  /\ UNCHANGED <<mounted, scheme, baseHue, locks, angle, fgIndex, bgIndex>>
  /\ Persist

\* The base-hue slider moves: setBaseHue(parseInt(e.target.value)).
SetBaseHue ==
  /\ mounted
  /\ Step("setBaseHue")
  /\ \E v \in SliderValues \ {baseHue} : baseHue' = v
  /\ gen' = NoGen
  /\ UNCHANGED <<mounted, scheme, palette, locks, angle, fgIndex, bgIndex>>
  /\ Persist

\* The dice button: setBaseHue(Math.floor(Math.random()*360)).
RandomizeBaseHue ==
  /\ mounted
  /\ Step("randomizeBaseHue")
  /\ \E d \in RandomDraws : baseHue' = randomHue(d)
  /\ gen' = NoGen
  /\ UNCHANGED <<mounted, scheme, palette, locks, angle, fgIndex, bgIndex>>
  /\ Persist

\* An edit of the hex field of slot i (0-based).
UpdateColor ==
  /\ mounted
  /\ Step("updateColor")
  /\ \E i \in 0..(Len(palette) - 1) : \E text \in EditedTexts(palette[i + 1]) :
       palette' = updateColor(palette, i, withHash(text))
  /\ gen' = NoGen
  /\ UNCHANGED <<mounted, scheme, baseHue, locks, angle, fgIndex, bgIndex>>
  /\ Persist

\* The lock button of slot i (0-based; one per palette entry).
ToggleLock ==
  /\ mounted
  /\ Step("toggleLock")
  /\ \E i \in 0..(Len(palette) - 1) : locks' = toggleLock(locks, i)
  /\ gen' = NoGen
  /\ UNCHANGED <<mounted, scheme, baseHue, palette, angle, fgIndex, bgIndex>>
  /\ Persist

\* The angle slider moves.
SetAngle ==
  /\ mounted
  /\ Step("setAngle")
  /\ \E v \in {SliderMin, SliderMax} \ {angle} : angle' = v
  /\ gen' = NoGen
  /\ UNCHANGED <<mounted, scheme, baseHue, palette, locks, fgIndex, bgIndex>>
  /\ Persist

\* The foreground select: one option per palette entry, valued i+1.
SetFgIndex ==
  /\ mounted
  /\ Step("setFgIndex")
  /\ \E k \in 1..Len(palette) : k # fgIndex /\ fgIndex' = k
  /\ gen' = NoGen
  /\ UNCHANGED <<mounted, scheme, baseHue, palette, locks, angle, bgIndex>>
  /\ Persist

\* The background select.
SetBgIndex ==
  /\ mounted
  /\ Step("setBgIndex")
  /\ \E k \in 1..Len(palette) : k # bgIndex /\ bgIndex' = k
  /\ gen' = NoGen
  /\ UNCHANGED <<mounted, scheme, baseHue, palette, locks, angle, fgIndex>>
  /\ Persist

Next ==
  \/ Mount
  \/ Unmount
  \/ SetScheme
  \/ Regenerate
  \/ SetBaseHue
  \/ RandomizeBaseHue
  \/ UpdateColor
  \/ ToggleLock
  \/ SetAngle
  \/ SetFgIndex
  \/ SetBgIndex

Spec == Init /\ [][Next]_vars

\* --------------------------------------------- the pure functions, applied

\* The component is not involved when a function is applied on its own.
NoComponent ==
  /\ Idle
  /\ storage = <<>>
  /\ gen = NoGen
  /\ lastOp = "none"
  /\ ops = 0

\* Free-form texts: every string of at most MaxLen of these characters.
TextAlphabet == {"#", "1", "c", "z"}
FreeTexts == UNION {[1..n -> TextAlphabet] : n \in 0..MaxLen}

\* Well-formed colour strings over a sample of the 22 hex digits.
AllDigits16 == Digits16 \o UpperDigits16
DigitSample == {AllDigits16[((7 * k) % 22) + 1] : k \in 0..MaxDigit}
ValidHexes == {<<"#">> \o d : d \in [1..6 -> DigitSample]}

\* RGB triples over a sample of the channel values 0..255.
ChannelSample == {(133 * k) % 256 : k \in 0..MaxChan}
RgbTriples == [1..3 -> {Num(c) : c \in ChannelSample}]

InitHex ==
  /\ NoComponent
  /\ call = "none"
  /\ \/ arg \in {[kind |-> "hex", v |-> x] : x \in FreeTexts \cup ValidHexes}
     \/ arg \in {[kind |-> "rgb", v |-> t] : t \in RgbTriples}
  /\ ret = <<>>

CallHexToRgb ==
  /\ call = "none"
  /\ arg.kind = "hex"
  /\ call' = "hexToRgb"
  /\ ret' = hexToRgb(arg.v)
  /\ UNCHANGED <<arg, uiVars>>

CallRgbToHex ==
  /\ call = "none"
  /\ arg.kind = "rgb"
  /\ call' = "rgbToHex"
  /\ ret' = rgbToHex(arg.v)
  /\ UNCHANGED <<arg, uiVars>>

\* rgbToHex(hexToRgb(x))
ThenRgbToHex ==
  /\ call = "hexToRgb"
  /\ call' = "hexToRgb.rgbToHex"
  /\ ret' = rgbToHex(ret)
  /\ UNCHANGED <<arg, uiVars>>

\* hexToRgb(rgbToHex(t))
ThenHexToRgb ==
  /\ call = "rgbToHex"
  /\ call' = "rgbToHex.hexToRgb"
  /\ ret' = hexToRgb(ret)
  /\ UNCHANGED <<arg, uiVars>>

NextHex == CallHexToRgb \/ CallRgbToHex \/ ThenRgbToHex \/ ThenHexToRgb

SpecHex == InitHex /\ [][NextHex]_vars

\* generatePalette's hues, for every slider position and scheme.
InitGen ==
  /\ NoComponent
  /\ call = "none"
  /\ arg \in [baseHue : SliderMin..SliderMax, scheme : Schemes]
  /\ ret = <<>>

CallGeneratePalette ==
  /\ call = "none"
  /\ call' = "generatePalette"
  /\ \E rnd \in DrawSeqs :
       ret' = [hues |-> hues(arg.baseHue, arg.scheme, rnd),
               palette |-> generatePalette(arg.baseHue, arg.scheme, rnd)]
  /\ UNCHANGED <<arg, uiVars>>

NextGen == CallGeneratePalette

SpecGen == InitGen /\ [][NextGen]_vars

\* Palettes to select from, indices around the palette's range, and
\* contrast ratios num/den from 1 to 21 (the ratio of white to black).
SamplePalettes == {generatePalette(SliderMin, "triadic", rnd) : rnd \in DrawSeqs}
IndexSample == (0 - MaxIndex)..(PaletteSize + MaxIndex)
Ratios == {Ratio(n, d) : n \in 1..(21 * MaxDen), d \in 1..MaxDen}

InitContrast ==
  /\ NoComponent
  /\ call = "none"
  /\ \/ arg \in {[kind |-> "select", palette |-> p, fgIndex |-> f, bgIndex |-> b] :
                   p \in SamplePalettes, f \in IndexSample, b \in IndexSample}
     \/ arg \in {[kind |-> "contrast", contrast |-> c] :
                   c \in {r \in Ratios : r.num >= r.den /\ r.num <= 21 * r.den}
                           \cup {NaNRatio}}
  /\ ret = <<>>

CallSelect ==
  /\ call = "none"
  /\ arg.kind = "select"
  /\ call' = "select"
  /\ ret' = [fg |-> selectFg(arg.palette, arg.fgIndex),
             bg |-> selectBg(arg.palette, arg.bgIndex)]
  /\ UNCHANGED <<arg, uiVars>>

CallWcag ==
  /\ call = "none"
  /\ arg.kind = "contrast"
  /\ call' = "wcag"
  /\ ret' = wcag(arg.contrast)
  /\ UNCHANGED <<arg, uiVars>>

NextContrast == CallSelect \/ CallWcag

SpecContrast == InitContrast /\ [][NextContrast]_vars

\* ------------------------------------------------------------ properties

\* '#' followed by exactly six hex digits.
isColourString(x) ==
  /\ Len(x) = 7
  /\ x[1] = "#"
  /\ \A i \in 2..7 : isHexDigit(x[i])

\* x with its letters A-F lower-cased.
lowerCased(x) ==
  [i \in 1..Len(x) |-> IF isUpperHexDigit(x[i]) THEN Digits16[digitValue(x[i]) + 1] ELSE x[i]]

\* After an optional leading '#': no digits, an odd number of them, or a
\* character that is no hex digit.
isMalformed(x) ==
  LET body == IF x # <<>> /\ Head(x) = "#" THEN Tail(x) ELSE x
  IN \/ Len(body) % 2 = 1
     \/ body = <<>>
     \/ \E i \in 1..Len(body) : ~isHexDigit(body[i])

Black == <<Num(0), Num(0), Num(0)>>

\* C1: a regeneration, by the generate button or by a scheme change, keeps
\* every slot locked at that moment and gives every other slot the colour
\* of the freshly generated palette.
C1_RegenerateKeepsLocked ==
  [][lastOp' \in {"regenerate", "setScheme"} =>
       /\ gen'.called
       /\ \A i \in Slots :
            palette'[i] = IF locks[i] THEN palette[i] ELSE gen'.fresh[i]]_vars

\* C1 witness: after the generate button, a locked slot has kept a colour
\* that differs from the fresh one and an unlocked slot has the fresh one.
C1_Witness ==
  /\ lastOp = "regenerate"
  /\ \E i \in Slots : locks[i] /\ palette[i] # gen.fresh[i]
  /\ \E j \in Slots : ~locks[j] /\ palette[j] = gen.fresh[j]

\* C2: whenever the component is mounted the palette and the lock mask have
\* exactly 5 entries each, and so do the persisted ones.
C2_FiveAndFive ==
  /\ mounted => Len(palette) = 5 /\ Len(locks) = 5
  /\ DOMAIN storage # {} => Len(storage.palette) = 5 /\ Len(storage.locks) = 5

\* C2 witness: a colour edit left a text of another length in a slot of a
\* palette with a locked slot, and both still have 5 entries.
C2_Witness ==
  /\ lastOp = "updateColor"
  /\ Len(palette) = 5 /\ Len(locks) = 5
  /\ \E i \in Slots : Len(palette[i]) # 7
  /\ \E i \in Slots : locks[i]

\* C3 (as claimed): mounting with a persisted snapshot settles in exactly
\* the persisted state, every palette slot included.
C3_RestoreEqualsPersisted ==
  [][(lastOp' = "mount" /\ DOMAIN storage # {}) =>
       /\ scheme' = storage.scheme
       /\ baseHue' = storage.baseHue
       /\ palette' = storage.palette
       /\ locks' = storage.locks
       /\ angle' = storage.angle
       /\ fgIndex' = storage.fg
       /\ bgIndex' = storage.bg]_vars

\* C4: the foreground is palette[fgIndex-1] for an index in 1..length and
\* the first colour otherwise, the background palette[bgIndex-1] for an
\* index in 1..length and the last colour otherwise; both are colours of
\* the palette and nothing is raised.
C4_SelectionFailsSoft ==
  call = "select" =>
    LET p == arg.palette
        n == Len(p)
        f == arg.fgIndex
        b == arg.bgIndex
    IN /\ ret.fg = IF 1 <= f /\ f <= n THEN p[f] ELSE p[1]
       /\ ret.bg = IF 1 <= b /\ b <= n THEN p[b] ELSE p[n]
       /\ \E i \in 1..n : ret.fg = p[i]
       /\ \E i \in 1..n : ret.bg = p[i]
       /\ ret.fg # Undefined /\ ret.bg # Undefined
       /\ ret.fg # TypeError /\ ret.bg # TypeError

\* C4 witness: a negative foreground index and a background index above
\* the length select the first and the last colour.
C4_Witness ==
  /\ call = "select"
  /\ arg.fgIndex < 0
  /\ arg.bgIndex > Len(arg.palette)
  /\ ret.fg = arg.palette[1]
  /\ ret.bg = arg.palette[Len(arg.palette)]
  /\ ret.fg # ret.bg

\* C5: for a base hue h in 0..359 the hues are the scheme's offsets from h
\* modulo 360, in slot order, whatever the random draws; every hue is in
\* 0..359.
C5_SchemeHues ==
  (call = "generatePalette" /\ arg.baseHue \in 0..359) =>
    LET h == arg.baseHue
    IN /\ arg.scheme = "complementary" =>
            ret.hues = <<h, (h + 180) % 360, (h + 30) % 360, (h + 210) % 360, (h + 350) % 360>>
       /\ arg.scheme = "triadic" =>
            ret.hues = <<h, (h + 120) % 360, (h + 240) % 360, (h + 60) % 360, (h + 300) % 360>>
       /\ arg.scheme = "analogous" =>
            ret.hues = <<(h + 330) % 360, (h + 350) % 360, h, (h + 10) % 360, (h + 30) % 360>>
       /\ arg.scheme = "monochrome" => ret.hues = <<h, h, h, h, h>>
       /\ \A i \in Slots : ret.hues[i] \in 0..359

\* C5 witness: the analogous hues of base hue 10 wrap below 0.
C5_Witness ==
  /\ call = "generatePalette"
  /\ arg.scheme = "analogous"
  /\ arg.baseHue = 10
  /\ ret.hues = <<340, 0, 10, 20, 40>>

\* C6 (as claimed): hexToRgb yields (0,0,0) for every malformed input.
C6_MalformedIsBlack ==
  (call = "hexToRgb" /\ isMalformed(arg.v)) => ret = Black

\* C7: rgbToHex(hexToRgb(x)) is x lower-cased for every well-formed colour
\* string x, and hexToRgb(rgbToHex(t)) = t for every triple of channels in
\* 0..255.
C7_HexRoundTrip ==
  /\ (call = "hexToRgb.rgbToHex" /\ isColourString(arg.v)) => ret = lowerCased(arg.v)
  /\ (call = "rgbToHex.hexToRgb"
        /\ \A i \in 1..3 : ~arg.v[i].nan /\ arg.v[i].n \in 0..255) => ret = arg.v

\* C7 witness: a colour string with a zero channel and an upper-case letter
\* came back lower-cased.
C7_Witness ==
  /\ call = "hexToRgb.rgbToHex"
  /\ isColourString(arg.v)
  /\ \E i \in 2..7 : isUpperHexDigit(arg.v[i])
  /\ arg.v[2] = "0" /\ arg.v[3] = "0"
  /\ ret = lowerCased(arg.v)
  /\ ret # arg.v

\* C8: a ratio >= 7 is 'AAA', one in [4.5, 7) is 'AA', one in [3, 4.5) is
\* 'AA Large' and one below 3 is 'Fail'.
C8_WcagClasses ==
  (call = "wcag" /\ ~arg.contrast.nan) =>
    LET n == arg.contrast.num
        d == arg.contrast.den
    IN /\ n >= 7 * d => ret = "AAA"
       /\ (2 * n >= 9 * d /\ n < 7 * d) => ret = "AA"
       /\ (n >= 3 * d /\ 2 * n < 9 * d) => ret = "AA Large"
       /\ n < 3 * d => ret = "Fail"
       /\ ret \in {"AAA", "AA", "AA Large", "Fail"}

\* C8 witness: the ratio 4.5 exactly is classified 'AA'.
C8_Witness ==
  /\ call = "wcag"
  /\ arg.contrast = Ratio(9, 2)
  /\ ret = "AA"

\* C9 (as claimed): the base hue regenerate hands to generatePalette is an
\* integer in 0..359.
C9_BaseHueBelow360 ==
  gen.called => gen.base \in 0..359

\* C10 (as claimed): every entry of the palette is '#' followed by exactly
\* six hex digits.
C10_PaletteWellFormed ==
  mounted => \A i \in 1..Len(palette) : isColourString(palette[i])

====
